---- MODULE Spec2Model ----
(***************************************************************************)
(* Model of RISC-V-Processor/Verify_Script.py: the interactive driver that *)
(* converts a test case, generates the golden reference, runs the Vivado   *)
(* batch simulation and compares the dumps with the golden files, for one  *)
(* test case or for all of them.                                           *)
(*                                                                         *)
(* Text is modelled as sequences of one-character strings; a file is a     *)
(* sequence of lines.  External tools (Instr_Transfer.py, dat2coe.py,      *)
(* Golden_Result.py, taskkill, vivado) are the environment: every          *)
(* invocation draws its behaviour (launch failure, hang, exit status,      *)
(* output, files written) from a small set.                                *)
(***************************************************************************)
EXTENDS Integers, Sequences, FiniteSets, TLC

(***************************************************************************)
(* Bounds                                                                  *)
(***************************************************************************)
\* number of test case ids of the modelled run; stands for range(1, 13)
NumCases == 2
\* number of rejected inputs the prompt loop is followed through
MaxReprompts == 2

\* number of lines of the artifacts given to parse_file
MaxLines == 3

Ids == 1..NumCases

(***************************************************************************)
(* Characters and strings                                                  *)
(***************************************************************************)
Upper == <<"A","B","C","D","E","F","G","H","I","J","K","L","M",
           "N","O","P","Q","R","S","T","U","V","W","X","Y","Z">>
Lower == <<"a","b","c","d","e","f","g","h","i","j","k","l","m",
           "n","o","p","q","r","s","t","u","v","w","x","y","z">>
Digits == <<"0","1","2","3","4","5","6","7","8","9">>
Whitespace == {" ", "\t", "\n", "\r"}

InSeq(c, s) == \E k \in 1..Len(s) : s[k] = c

\* str.lower() on one character
LowerChar(c) ==
    IF InSeq(c, Upper) THEN Lower[CHOOSE k \in 1..26 : Upper[k] = c] ELSE c

\* a value stored as written
lower_asis(s) == s

\* str.lower()
lower(s) == [k \in 1..Len(s) |-> LowerChar(s[k])]

RECURSIVE lstrip(_)
lstrip(s) ==
    IF s # <<>> /\ Head(s) \in Whitespace THEN lstrip(Tail(s)) ELSE s

RECURSIVE rstrip(_)
rstrip(s) ==
    IF s # <<>> /\ s[Len(s)] \in Whitespace
    THEN rstrip(SubSeq(s, 1, Len(s) - 1)) ELSE s

\* str.strip()
strip(s) == rstrip(lstrip(s))

\* str.startswith(p)
startswith(s, p) == Len(s) >= Len(p) /\ SubSeq(s, 1, Len(p)) = p

\* str.split(sep) for a one-character separator: the list of parts
RECURSIVE split(_, _)
split(s, sep) ==
    IF \A k \in 1..Len(s) : s[k] # sep THEN <<s>>
    ELSE LET p == CHOOSE k \in 1..Len(s) :
                     s[k] = sep /\ \A j \in 1..(k - 1) : s[j] # sep
         IN <<SubSeq(s, 1, p - 1)>> \o split(SubSeq(s, p + 1, Len(s)), sep)

DigitVal(c) == (CHOOSE k \in 1..10 : Digits[k] = c) - 1

RECURSIVE DecVal(_)
DecVal(s) ==
    IF s = <<>> THEN 0
    ELSE 10 * DecVal(SubSeq(s, 1, Len(s) - 1)) + DigitVal(s[Len(s)])

\* the argument of int() without surrounding whitespace and sign
IntBody(s) ==
    LET t == strip(s)
    IN IF t # <<>> /\ Head(t) \in {"+", "-"} THEN Tail(t) ELSE t

\* int(s) does not raise ValueError
IntOk(s) ==
    LET b == IntBody(s)
    IN b # <<>> /\ \A k \in 1..Len(b) : InSeq(b[k], Digits)

\* int(s), for IntOk(s)
IntVal(s) ==
    LET t == strip(s)
    IN IF Head(t) = "-" THEN 0 - DecVal(IntBody(s)) ELSE DecVal(IntBody(s))

(***************************************************************************)
(* parse_file                                                              *)
(***************************************************************************)
\* a file of the Testbench directory: absent, or a sequence of lines
NoFile == [exists |-> FALSE, lines |-> <<>>]
FileOf(lines) == [exists |-> TRUE, lines |-> lines]
EmptyDict == [k \in {} |-> <<>>]

\* data[index] = value
DictSet(d, k, v) == [x \in DOMAIN d \cup {k} |-> IF x = k THEN v ELSE d[x]]

\* one iteration of the loop over the lines of the file
ParseLine(data, raw) ==
    LET line  == strip(raw)
        parts == split(line, "]")
    IN IF line = <<>> \/ startswith(line, <<"/", "/">>) THEN data
       ELSE IF ~ startswith(line, <<"[">>) THEN data
       ELSE IF ~ IntOk(Tail(parts[1])) THEN data          \* ValueError
       ELSE IF Len(parts) < 2 THEN data                   \* IndexError
       ELSE DictSet(data, IntVal(Tail(parts[1])), lower(strip(parts[2])))

RECURSIVE ParseLines(_, _)
ParseLines(data, lines) ==
    IF lines = <<>> THEN data
    ELSE ParseLines(ParseLine(data, Head(lines)), Tail(lines))

\* parse_file(filename) on the content of the file: None when it is absent
parse_file(content) ==
    IF ~ content.exists THEN [found |-> FALSE, data |-> EmptyDict]
    ELSE [found |-> TRUE, data |-> ParseLines(EmptyDict, content.lines)]

(***************************************************************************)
(* compare_data                                                            *)
(***************************************************************************)
MISSING == <<"M","I","S","S","I","N","G">>

\* sorted(set of integers)
RECURSIVE sorted(_)
sorted(S) ==
    IF S = {} THEN <<>>
    ELSE LET m == CHOOSE x \in S : \A y \in S : x <= y
         IN <<m>> \o sorted(S \ {m})

\* dict.get(idx, '')
Get_empty(d, idx) == IF idx \in DOMAIN d THEN d[idx] ELSE <<>>

\* dict.get(idx, 'MISSING')
Get(d, idx) == IF idx \in DOMAIN d THEN d[idx] ELSE MISSING

RECURSIVE Mismatches(_, _, _)
Mismatches(order, sim, golden) ==
    IF order = <<>> THEN <<>>
    ELSE LET idx == Head(order)
             rest == Mismatches(Tail(order), sim, golden)
         IN IF Get(sim, idx) # Get(golden, idx)
            THEN <<[index |-> idx, simulation |-> Get(sim, idx),
                    golden |-> Get(golden, idx)]>> \o rest
            ELSE rest

\* compare_data going over the indices of the simulation side only
compare_data_simkeys(sim_data, golden_data, name) ==
    IF ~ sim_data.found
    THEN [pass |-> FALSE, count |-> 0, compared |-> FALSE,
          details |-> [reason |-> <<name, "simulation output not found">>,
                       mismatches |-> <<>>]]
    ELSE IF ~ golden_data.found
    THEN [pass |-> FALSE, count |-> 0, compared |-> FALSE,
          details |-> [reason |-> <<name, "golden reference not found">>,
                       mismatches |-> <<>>]]
    ELSE LET all_indices == DOMAIN sim_data.data
             mismatches == Mismatches(sorted(all_indices),
                                      sim_data.data, golden_data.data)
         IN [pass |-> mismatches = <<>>, count |-> Len(mismatches),
             compared |-> TRUE,
             details |-> [reason |-> <<>>, mismatches |-> mismatches]]

\* compare_data(sim_data, golden_data, name): (pass, mismatch_count, details);
\* details is the not-found reason or the list of mismatches it prints;
\* compared tells whether the index comparison was reached
compare_data(sim_data, golden_data, name) ==
    IF ~ sim_data.found
    THEN [pass |-> FALSE, count |-> 0, compared |-> FALSE,
          details |-> [reason |-> <<name, "simulation output not found">>,
                       mismatches |-> <<>>]]
    ELSE IF ~ golden_data.found
    THEN [pass |-> FALSE, count |-> 0, compared |-> FALSE,
          details |-> [reason |-> <<name, "golden reference not found">>,
                       mismatches |-> <<>>]]
    ELSE LET all_indices == DOMAIN sim_data.data \cup DOMAIN golden_data.data
             mismatches == Mismatches(sorted(all_indices),
                                      sim_data.data, golden_data.data)
         IN [pass |-> mismatches = <<>>, count |-> Len(mismatches),
             compared |-> TRUE,
             details |-> [reason |-> <<>>, mismatches |-> mismatches]]

(***************************************************************************)
(* The artifacts of the Testbench directory                                *)
(***************************************************************************)
Artifacts == {"RF.out", "RF.golden", "DM.out", "DM.golden"}

\* contents the tools write: the golden value in upper case, a matching
\* dump, a dump with another value
GoldenText == << <<"[", "1", "]", " ", "A">> >>
DumpMatch  == << <<"[", "1", "]", " ", "a">> >>
DumpDiffer == << <<"[", "1", "]", " ", "b">> >>

DumpFiles   == {NoFile, FileOf(<<>>), FileOf(DumpMatch), FileOf(DumpDiffer)}
GoldenFiles == {NoFile, FileOf(GoldenText)}

FileSystems ==
    {f \in [Artifacts -> DumpFiles \cup GoldenFiles] :
        /\ f["RF.out"] \in DumpFiles /\ f["DM.out"] \in DumpFiles
        /\ f["RF.golden"] \in GoldenFiles /\ f["DM.golden"] \in GoldenFiles}

\* what a tool does to one file: leaves it, or writes a content
Keep == [write |-> FALSE, file |-> NoFile]
Write(f) == [write |-> TRUE, file |-> f]
Written(old, w) == IF w.write THEN w.file ELSE old

\* os.path.exists / os.path.getsize of a path below the project root:
\* relative paths resolve against the working directory
exists(files, dir, name) == dir = "root" /\ files[name].exists
getsize(files, name) == Len(files[name].lines)

(***************************************************************************)
(* check_testcase_exists, convert_testcase                                 *)
(***************************************************************************)
\* present: Pattern/TestCase<n>.dat is there when the call looks
check_testcase_exists(present, dir) == present /\ dir = "root"

\* the ways one call of convert_testcase can go, by what the environment
\* does: the input vanished, python cannot be launched, Instr_Transfer.py
\* never returns, exits non-zero, leaves no IM.dat, the move fails,
\* dat2coe raises, or all of it works
ConvertEnvs == {"absent", "launch_error", "hang", "rc_nonzero", "no_im_dat",
                "move_error", "coe_error", "ok"}

\* convert_testcase(testcase_num): "True", "False", or "hang" when
\* subprocess.run (called without a timeout) never returns
convert_testcase(env, dir) ==
    IF env = "absent" \/ dir # "root" THEN "False"
    ELSE IF env = "launch_error" THEN "False"      \* except Exception
    ELSE IF env = "hang" THEN "hang"
    ELSE IF env = "rc_nonzero" THEN "False"
    ELSE IF env = "no_im_dat" THEN "False"
    ELSE IF env = "move_error" THEN "False"        \* except Exception
    ELSE IF env = "coe_error" THEN "False"
    ELSE "True"

(***************************************************************************)
(* generate_golden                                                         *)
(***************************************************************************)
\* script: Testbench/Golden_Result.py exists; run: what subprocess.run does;
\* rc: the exit status; rf, dm: what the tool does to RF.golden, DM.golden
GoldenEnvs ==
    [script : BOOLEAN, run : {"launch_error", "hang", "done"}, rc : {0, 1},
     rf : {Keep, Write(FileOf(GoldenText))},
     dm : {Keep, Write(FileOf(GoldenText))}]

\* the files after Golden_Result.py ran
GoldenWrites(env, files) ==
    [files EXCEPT !["RF.golden"] = Written(@, env.rf),
                  !["DM.golden"] = Written(@, env.dm)]

\* the artifacts Golden_Result.py wrote in a call of generate_golden
golden_written(env, dir) ==
    IF env.script /\ dir = "root" /\ env.run # "launch_error"
    THEN {a \in {"RF.golden", "DM.golden"} :
             IF a = "RF.golden" THEN env.rf.write ELSE env.dm.write}
    ELSE {}

\* generate_golden(): the value returned ("hang": subprocess.run, called
\* without a timeout, never returns) and the files afterwards
generate_golden(env, files, dir) ==
    IF ~ (env.script /\ dir = "root") THEN [ret |-> "False", files |-> files]
    ELSE IF env.run = "launch_error" THEN [ret |-> "False", files |-> files]
    ELSE IF env.run = "hang"
    THEN [ret |-> "hang", files |-> GoldenWrites(env, files)]
    ELSE LET after == GoldenWrites(env, files)
         IN IF env.rc # 0 THEN [ret |-> "False", files |-> after]
            ELSE IF exists(after, dir, "RF.golden")
                    /\ exists(after, dir, "DM.golden")
            THEN [ret |-> "True", files |-> after]
            ELSE [ret |-> "False", files |-> after]

(***************************************************************************)
(* run_simulation                                                          *)
(***************************************************************************)
\* stdout and stderr of vivado, as sequences of tokens: the marker
\* "ERROR:", another word, a blank, a line break
Stdouts == {<<>>, <<"x">>, <<"x", "\n">>, <<" ", "ERROR:", "x">>}
Stderrs == {<<>>, <<"ERROR:">>, <<"x">>}

\* str.splitlines()
splitlines(s) == split(s, "\n")

\* error_lines testing the raw line, without strip()
error_lines_nostrip(combined_output) ==
    SelectSeq(splitlines(combined_output),
              LAMBDA line : startswith(line, <<"ERROR:">>))

\* the lines of the output whose stripped text starts with 'ERROR:'
error_lines(combined_output) ==
    SelectSeq(splitlines(combined_output),
              LAMBDA line : startswith(strip(line), <<"ERROR:">>))

\* cleanup: what the two taskkill calls do (run, cannot be launched, never
\* return); launch: what subprocess.run of vivado does (the process ends,
\* TimeoutExpired, FileNotFoundError, another exception); out, err, rc: its
\* output and exit status; rf, dm: what it does to RF.out and DM.out
SimEnvs ==
    [cleanup : {"ok", "launch_error", "hang"},
     launch : {"done", "timeout", "notfound", "oserror"},
     out : Stdouts, err : Stderrs, rc : {0, 1},
     rf : {Keep} \cup {Write(f) : f \in DumpFiles \ {NoFile}},
     dm : {Keep} \cup {Write(f) : f \in DumpFiles \ {NoFile}}]

\* the behaviours followed in a whole run: one per way run_simulation can
\* go, and every combination of dumps written by a clean vivado run
SimDefault ==
    [cleanup |-> "ok", launch |-> "done", out |-> <<"x", "\n">>, err |-> <<>>,
     rc |-> 0, rf |-> Write(FileOf(DumpMatch)), dm |-> Write(FileOf(DumpMatch))]

SimEnvsRun ==
    {[SimDefault EXCEPT !.cleanup = c] : c \in {"launch_error", "hang"}}
    \cup {[SimDefault EXCEPT !.launch = l] : l \in {"notfound", "oserror"}}
    \cup {[SimDefault EXCEPT !.out = o, !.err = e, !.rc = r] :
              o \in Stdouts, e \in Stderrs, r \in {0, 1}}
    \cup {[SimDefault EXCEPT !.launch = l, !.rf = a, !.dm = b] :
              l \in {"done", "timeout"},
              a \in {Keep} \cup {Write(f) : f \in DumpFiles \ {NoFile}},
              b \in {Keep} \cup {Write(f) : f \in DumpFiles \ {NoFile}}}

\* the files after vivado ran (to its end or to the timeout)
SimWrites(env, files) ==
    [files EXCEPT !["RF.out"] = Written(@, env.rf),
                  !["DM.out"] = Written(@, env.dm)]

\* the cleanup loop with xsim.exe only
stale_procs_one == <<"xsim.exe">>

\* the processes the cleanup loop kills
stale_procs == <<"xsim.exe", "xsimk.exe">>

\* the external commands run_simulation issues
Taskkill(proc) == [cmd |-> "taskkill", arg |-> proc]
Vivado == [cmd |-> "vivado", arg |-> "-mode batch"]

\* the artifacts vivado wrote in a call of run_simulation
sim_written(env) ==
    IF env.cleanup = "ok" /\ env.launch \in {"done", "timeout"}
    THEN {a \in {"RF.out", "DM.out"} :
             IF a = "RF.out" THEN env.rf.write ELSE env.dm.write}
    ELSE {}

\* run_simulation(script_path, vivado_path).  kind: "return" with ret,
\* "raise" when an exception leaves the function, "hang" when a taskkill
\* call (no timeout) never returns; steps: the external commands issued
run_simulation(env, files, dir) ==
    IF env.cleanup = "launch_error"
    THEN [kind |-> "raise", ret |-> FALSE, files |-> files,
          steps |-> <<Taskkill(stale_procs[1])>>]
    ELSE IF env.cleanup = "hang"
    THEN [kind |-> "hang", ret |-> FALSE, files |-> files,
          steps |-> <<Taskkill(stale_procs[1])>>]
    ELSE
    LET steps == [k \in 1..Len(stale_procs) |-> Taskkill(stale_procs[k])]
                     \o <<Vivado>>
        after == SimWrites(env, files)
        combined_output == env.out \o env.err
        missing == {p \in {"RF.out", "DM.out"} :
                       \/ ~ exists(after, dir, p)
                       \/ getsize(after, p) = 0}
    IN IF env.launch = "timeout"
       THEN [kind |-> "return", ret |-> FALSE, files |-> after,
             steps |-> steps]
       ELSE IF env.launch \in {"notfound", "oserror"}
       THEN [kind |-> "return", ret |-> FALSE, files |-> files,
             steps |-> steps]
       ELSE IF error_lines(combined_output) # <<>>
       THEN [kind |-> "return", ret |-> FALSE, files |-> after,
             steps |-> steps]
       ELSE IF env.rc # 0
       THEN [kind |-> "return", ret |-> FALSE, files |-> after,
             steps |-> steps]
       ELSE IF missing # {}
       THEN [kind |-> "return", ret |-> FALSE, files |-> after,
             steps |-> steps]
       ELSE [kind |-> "return", ret |-> TRUE, files |-> after,
             steps |-> steps]

(***************************************************************************)
(* verify                                                                  *)
(***************************************************************************)
\* gone: the artifacts that disappear after the existence check of verify;
\* race: they do so between the existence check of parse_file and its open
\* (FileNotFoundError) instead of before parse_file looks (None)
VerifyEnvs == [gone : {{}} \cup {{a} : a \in Artifacts}, race : BOOLEAN]

NoDetails == [reason |-> <<>>, mismatches |-> <<>>]

Remove(files, gone) == [a \in Artifacts |-> IF a \in gone THEN NoFile ELSE files[a]]

\* verify() whose missing-files return leaves out os.chdir('..')
verify_stay(env, files, dir) ==
    IF dir # "root"                         \* os.chdir('Testbench') fails
    THEN [kind |-> "raise", dir |-> dir, called |-> {}, compared |-> {},
          files |-> files,
          result |-> [success |-> FALSE, rf_pass |-> FALSE, dm_pass |-> FALSE,
                      rf_mismatches |-> 0, dm_mismatches |-> 0,
                      rf_details |-> NoDetails, dm_details |-> NoDetails]]
    ELSE
    LET missing_files == {a \in Artifacts : ~ files[a].exists}
        later == Remove(files, env.gone)
        rf == compare_data(parse_file(later["RF.out"]),
                           parse_file(later["RF.golden"]), "RF")
        dm == compare_data(parse_file(later["DM.out"]),
                           parse_file(later["DM.golden"]), "DM")
        passed_tests == (IF rf.pass THEN 1 ELSE 0) + (IF dm.pass THEN 1 ELSE 0)
        total_tests == 2
    IN IF missing_files # {}
       THEN [kind |-> "return", dir |-> "Testbench", called |-> {},
             compared |-> {}, files |-> files,
             result |-> [success |-> FALSE, rf_pass |-> FALSE,
                         dm_pass |-> FALSE,
                         rf_mismatches |-> 0, dm_mismatches |-> 0,
                         rf_details |-> NoDetails, dm_details |-> NoDetails]]
       ELSE IF env.race /\ env.gone # {}
       THEN [kind |-> "raise", dir |-> "Testbench", called |-> {},
             compared |-> {}, files |-> later,
             result |-> [success |-> FALSE, rf_pass |-> FALSE,
                         dm_pass |-> FALSE,
                         rf_mismatches |-> 0, dm_mismatches |-> 0,
                         rf_details |-> NoDetails, dm_details |-> NoDetails]]
       ELSE [kind |-> "return", dir |-> "root", called |-> {"RF", "DM"},
             compared |-> {c \in {"RF", "DM"} :
                              IF c = "RF" THEN rf.compared ELSE dm.compared},
             files |-> later,
             result |-> [success |-> passed_tests = total_tests,
                         rf_pass |-> rf.pass, dm_pass |-> dm.pass,
                         rf_mismatches |-> rf.count,
                         dm_mismatches |-> dm.count,
                         rf_details |-> rf.details,
                         dm_details |-> dm.details]]

\* verify().  kind: "return" with the result dict, or "raise"; dir: the
\* working directory it leaves; called: the channels compare_data was called
\* for; compared: the channels whose indices were compared
verify(env, files, dir) ==
    IF dir # "root"                         \* os.chdir('Testbench') fails
    THEN [kind |-> "raise", dir |-> dir, called |-> {}, compared |-> {},
          files |-> files,
          result |-> [success |-> FALSE, rf_pass |-> FALSE, dm_pass |-> FALSE,
                      rf_mismatches |-> 0, dm_mismatches |-> 0,
                      rf_details |-> NoDetails, dm_details |-> NoDetails]]
    ELSE
    LET missing_files == {a \in Artifacts : ~ files[a].exists}
        later == Remove(files, env.gone)
        rf == compare_data(parse_file(later["RF.out"]),
                           parse_file(later["RF.golden"]), "RF")
        dm == compare_data(parse_file(later["DM.out"]),
                           parse_file(later["DM.golden"]), "DM")
        passed_tests == (IF rf.pass THEN 1 ELSE 0) + (IF dm.pass THEN 1 ELSE 0)
        total_tests == 2
    IN IF missing_files # {}
       THEN [kind |-> "return", dir |-> "root", called |-> {},
             compared |-> {}, files |-> files,
             result |-> [success |-> FALSE, rf_pass |-> FALSE,
                         dm_pass |-> FALSE,
                         rf_mismatches |-> 0, dm_mismatches |-> 0,
                         rf_details |-> NoDetails, dm_details |-> NoDetails]]
       ELSE IF env.race /\ env.gone # {}
       THEN [kind |-> "raise", dir |-> "Testbench", called |-> {},
             compared |-> {}, files |-> later,
             result |-> [success |-> FALSE, rf_pass |-> FALSE,
                         dm_pass |-> FALSE,
                         rf_mismatches |-> 0, dm_mismatches |-> 0,
                         rf_details |-> NoDetails, dm_details |-> NoDetails]]
       ELSE [kind |-> "return", dir |-> "root", called |-> {"RF", "DM"},
             compared |-> {c \in {"RF", "DM"} :
                              IF c = "RF" THEN rf.compared ELSE dm.compared},
             files |-> later,
             result |-> [success |-> passed_tests = total_tests,
                         rf_pass |-> rf.pass, dm_pass |-> dm.pass,
                         rf_mismatches |-> rf.count,
                         dm_mismatches |-> dm.count,
                         rf_details |-> rf.details,
                         dm_details |-> dm.details]]

(***************************************************************************)
(* The program state                                                       *)
(***************************************************************************)
VARIABLES
    pc,            \* where main is
    mode,          \* "prompt", "batch" (inside run_all_testcases), "single"
    i,             \* loop variable of run_all_testcases
    testcase_num,  \* the id chosen at the prompt
    results,       \* testcase_num -> result dict from verify()
    sim_failures,  \* test cases where simulation itself failed
    skipped,       \* test cases skipped before simulation
    summary,       \* what run_all_testcases derives after the loop
    result,        \* the result dict main gets from verify() (line 579)
    exitStatus,    \* exit status of the process, -1 while it runs
    exitCause,     \* how main ended: "sys.exit", "exception", "interrupt"
                   \* or "prompt_interrupt" (KeyboardInterrupt after or at
                   \* the prompt), "" while it runs
    cwd,           \* working directory of the process
    fs,            \* the artifacts in Testbench/
    reprompts,     \* rejected inputs so far
    hist,          \* per id, the stages invoked so far and how they ended
    attempted,     \* ids whose loop body was entered, in order
    obs,           \* environment and outcome of an isolated run_simulation
    find_vivado_calls, \* what each call of find_vivado() returned, in order
    fresh          \* where a loop iteration is followed on its own: the
                   \* artifacts its stages have written so far

vars == <<pc, mode, i, testcase_num, results, sim_failures, skipped, summary,
          result, exitStatus, exitCause, cwd, fs, reprompts, hist, attempted, obs,
          find_vivado_calls, fresh>>

\* one stage of a test case: how it ended ("ok", "fail", "raise", "hang",
\* "notfound" when the simulation had no vivado to launch) and, for verify,
\* the channels compare_data was called for
Event(stage, ok, channels) ==
    [stage |-> stage, ok |-> ok, channels |-> channels]

Log(id, stage, ok, channels) ==
    [hist EXCEPT ![id] = Append(@, Event(stage, ok, channels))]

\* what the user may type at the prompt
AllText == <<"a", "l", "l">>
Inputs ==
    {AllText, <<" ", "A", "l", "L", " ">>, <<>>, <<"x">>, <<"1", ".", "0">>,
     <<"-", "1">>, <<"1", "3">>}
    \cup {<<Digits[n + 1]>> : n \in 0..(NumCases + 1)}
    \cup {<<" ", "+", Digits[n + 1]>> : n \in Ids}

Init ==
    /\ pc = "prompt"
    /\ mode = "prompt"
    /\ i = 0
    /\ testcase_num = 0
    /\ results = EmptyDict
    /\ sim_failures = <<>>
    /\ skipped = <<>>
    /\ summary = <<>>
    /\ result = <<>>
    /\ exitStatus = -1
    /\ exitCause = ""
    /\ cwd = "root"
    /\ fs \in FileSystems
    /\ reprompts = 0
    /\ hist = [id \in Ids |-> <<>>]
    /\ attempted = <<>>
    /\ obs = <<>>
    /\ find_vivado_calls = <<>>
    /\ fresh = {}

\* the process ends: sys.exit(status), main returning (status 0), or an
\* exception handler of main calling sys.exit(1)
Exit(status, cause) ==
    /\ pc' = "exited"
    /\ exitStatus' = status
    /\ exitCause' = cause

(***************************************************************************)
(* main: the prompt loop (lines 514-535)                                   *)
(***************************************************************************)
\* input() returns 'all': run_all_testcases() is entered
PromptAll ==
    /\ pc = "prompt"
    /\ \E text \in Inputs :
          /\ lower(strip(text)) = AllText
          /\ pc' = "b_find"
          /\ mode' = "batch"
    /\ UNCHANGED <<i, testcase_num, results, sim_failures, skipped, summary,
                   exitStatus, exitCause, cwd, fs, reprompts, hist, attempted, obs, result>>
    /\ UNCHANGED <<find_vivado_calls, fresh>>

\* input() returns a number in range whose input file exists: break
PromptChoose ==
    /\ pc = "prompt"
    /\ \E text \in Inputs, present \in BOOLEAN :
          LET testcase_input == lower(strip(text))
          IN /\ testcase_input # AllText
             /\ IntOk(testcase_input)
             /\ 1 <= IntVal(testcase_input)
             /\ IntVal(testcase_input) <= NumCases
             /\ check_testcase_exists(present, cwd)
             /\ testcase_num' = IntVal(testcase_input)
             /\ hist' = Log(IntVal(testcase_input), "locate", "ok", {})
    /\ pc' = "s_convert"
    /\ mode' = "single"
    /\ UNCHANGED <<i, results, sim_failures, skipped, summary, exitStatus,
                   exitCause, cwd, fs, reprompts, attempted, obs, result>>
    /\ UNCHANGED <<find_vivado_calls, fresh>>

\* input() returns anything else: ValueError, out of range or file not
\* found; the loop asks again
PromptReject ==
    /\ pc = "prompt"
    /\ reprompts < MaxReprompts
    /\ \E text \in Inputs, present \in BOOLEAN :
          LET testcase_input == lower(strip(text))
          IN /\ testcase_input # AllText
             /\ \/ ~ IntOk(testcase_input)
                \/ /\ IntOk(testcase_input)
                   /\ \/ IntVal(testcase_input) < 1
                      \/ IntVal(testcase_input) > NumCases
                      \/ ~ check_testcase_exists(present, cwd)
    /\ reprompts' = reprompts + 1
    /\ UNCHANGED <<pc, mode, i, testcase_num, results, sim_failures, skipped,
                   summary, exitStatus, exitCause, cwd, fs, hist, attempted, obs, result>>
    /\ UNCHANGED <<find_vivado_calls, fresh>>

\* the interrupt at the prompt handled like the outer handler does
PromptInterrupt_Outer ==
    /\ pc = "prompt"
    /\ Exit(1, "prompt_interrupt")
    /\ UNCHANGED <<mode, i, testcase_num, results, sim_failures, skipped,
                   summary, cwd, fs, reprompts, hist, attempted, obs, result>>
    /\ UNCHANGED <<find_vivado_calls, fresh>>

\* KeyboardInterrupt while input() waits: "Operation cancelled", return
PromptInterrupt ==
    /\ pc = "prompt"
    /\ Exit(0, "prompt_interrupt")
    /\ UNCHANGED <<mode, i, testcase_num, results, sim_failures, skipped,
                   summary, cwd, fs, reprompts, hist, attempted, obs, result>>
    /\ UNCHANGED <<find_vivado_calls, fresh>>

\* input() raises EOFError: the outer except Exception exits with 1
PromptEOF ==
    /\ pc = "prompt"
    /\ Exit(1, "exception")
    /\ UNCHANGED <<mode, i, testcase_num, results, sim_failures, skipped,
                   summary, cwd, fs, reprompts, hist, attempted, obs, result>>
    /\ UNCHANGED <<find_vivado_calls, fresh>>

(***************************************************************************)
(* run_all_testcases (lines 383-492)                                       *)
(***************************************************************************)
\* run_all_testcases going on without a vivado path
BatchFind_NoAbort ==
    /\ pc = "b_find"
    /\ \E found \in BOOLEAN, script \in BOOLEAN :
          /\ find_vivado_calls' =
                 Append(find_vivado_calls, IF found THEN "path" ELSE "None")
          /\ IF ~ script
             THEN /\ Exit(1, "sys.exit")
                  /\ i' = i
             ELSE /\ pc' = "b_locate"
                  /\ i' = 1
                  /\ UNCHANGED <<exitStatus, exitCause>>
    /\ UNCHANGED <<mode, testcase_num, results, sim_failures, skipped,
                   summary, cwd, fs, reprompts, hist, attempted, obs, result>>
    /\ UNCHANGED fresh

\* find_vivado() and the Script.tcl check; found, script: what they see
BatchFind ==
    /\ pc = "b_find"
    /\ \E found \in BOOLEAN, script \in BOOLEAN :
          /\ find_vivado_calls' =
                 Append(find_vivado_calls, IF found THEN "path" ELSE "None")
          /\ IF ~ found \/ ~ script
             THEN /\ Exit(1, "sys.exit")
                  /\ i' = i
             ELSE /\ pc' = "b_locate"
                  /\ i' = 1
                  /\ UNCHANGED <<exitStatus, exitCause>>
    /\ UNCHANGED <<mode, testcase_num, results, sim_failures, skipped,
                   summary, cwd, fs, reprompts, hist, attempted, obs, result>>
    /\ UNCHANGED fresh

\* the loop over range(1, NumCases) instead of range(1, NumCases + 1)
NextCase_Short ==
    IF i < NumCases - 1
    THEN pc' = "b_locate" /\ i' = i + 1
    ELSE pc' = "b_summary" /\ i' = i

\* continue, or the end of the loop body: the next id or the summary
NextCase ==
    IF i < NumCases
    THEN pc' = "b_locate" /\ i' = i + 1
    ELSE pc' = "b_summary" /\ i' = i

\* lines 409-412
BatchLocate ==
    /\ pc = "b_locate"
    /\ attempted' = Append(attempted, i)
    /\ \E present \in BOOLEAN :
          IF ~ check_testcase_exists(present, cwd)
          THEN /\ skipped' = Append(skipped, i)
               /\ hist' = Log(i, "locate", "fail", {})
               /\ NextCase
          ELSE /\ skipped' = skipped
               /\ hist' = Log(i, "locate", "ok", {})
               /\ pc' = "b_convert"
               /\ i' = i
    /\ UNCHANGED <<mode, testcase_num, results, sim_failures, summary,
                   exitStatus, exitCause, cwd, fs, reprompts, obs, result>>
    /\ UNCHANGED <<find_vivado_calls, fresh>>

\* lines 414-417
BatchConvert ==
    /\ pc = "b_convert"
    /\ \E env \in ConvertEnvs :
          LET r == convert_testcase(env, cwd)
          IN IF r = "hang"
             THEN /\ pc' = "blocked"
                  /\ hist' = Log(i, "convert", "hang", {})
                  /\ UNCHANGED <<i, skipped>>
             ELSE IF r = "False"
             THEN /\ skipped' = Append(skipped, i)
                  /\ hist' = Log(i, "convert", "fail", {})
                  /\ NextCase
             ELSE /\ pc' = "b_golden"
                  /\ hist' = Log(i, "convert", "ok", {})
                  /\ UNCHANGED <<i, skipped>>
    /\ UNCHANGED <<mode, testcase_num, results, sim_failures, summary,
                   exitStatus, exitCause, cwd, fs, reprompts, attempted, obs, result>>
    /\ UNCHANGED <<find_vivado_calls, fresh>>

\* lines 419-422
BatchGoldenWith(env) ==
    /\ pc = "b_golden"
    /\ LET r == generate_golden(env, fs, cwd)
       IN /\ fs' = r.files
          /\ IF r.ret = "hang"
             THEN /\ pc' = "blocked"
                  /\ hist' = Log(i, "golden", "hang", {})
                  /\ UNCHANGED <<i, skipped>>
             ELSE IF r.ret = "False"
             THEN /\ skipped' = Append(skipped, i)
                  /\ hist' = Log(i, "golden", "fail", {})
                  /\ NextCase
             ELSE /\ pc' = "b_simulate"
                  /\ hist' = Log(i, "golden", "ok", {})
                  /\ UNCHANGED <<i, skipped>>
    /\ UNCHANGED <<mode, testcase_num, results, sim_failures, summary,
                   exitStatus, exitCause, cwd, reprompts, attempted, obs, result>>
    /\ UNCHANGED find_vivado_calls

\* the call of generate_golden for every behaviour of Golden_Result.py
BatchGolden ==
    \E env \in GoldenEnvs : BatchGoldenWith(env) /\ UNCHANGED fresh

\* lines 424-427; an exception out of run_simulation leaves
\* run_all_testcases and reaches the outer except Exception of main
BatchSimulateWith(env) ==
    /\ pc = "b_simulate"
    /\ LET r == run_simulation(env, fs, cwd)
       IN /\ fs' = r.files
          /\ IF r.kind = "raise"
             THEN /\ Exit(1, "exception")
                  /\ hist' = Log(i, "simulate", "raise", {})
                  /\ UNCHANGED <<i, sim_failures>>
             ELSE IF r.kind = "hang"
             THEN /\ pc' = "blocked"
                  /\ hist' = Log(i, "simulate", "hang", {})
                  /\ UNCHANGED <<i, sim_failures, exitStatus, exitCause>>
             ELSE IF ~ r.ret
             THEN /\ sim_failures' = Append(sim_failures, i)
                  /\ hist' = Log(i, "simulate", "fail", {})
                  /\ NextCase
                  /\ UNCHANGED <<exitStatus, exitCause>>
             ELSE /\ pc' = "b_verify"
                  /\ hist' = Log(i, "simulate", "ok", {})
                  /\ UNCHANGED <<i, sim_failures, exitStatus, exitCause>>
    /\ UNCHANGED <<mode, testcase_num, results, skipped, summary, cwd,
                   reprompts, attempted, obs, result>>
    /\ UNCHANGED find_vivado_calls

\* the batch loop running a failed simulation a second time
BatchSimulate_Retry ==
    /\ pc = "b_simulate"
    /\ \E env \in SimEnvsRun :
          LET r == run_simulation(env, fs, cwd)
          IN /\ fs' = r.files
             /\ IF r.kind = "raise"
                THEN /\ Exit(1, "exception")
                     /\ hist' = Log(i, "simulate", "raise", {})
                     /\ UNCHANGED <<i, sim_failures>>
                ELSE IF r.kind = "hang"
                THEN /\ pc' = "blocked"
                     /\ hist' = Log(i, "simulate", "hang", {})
                     /\ UNCHANGED <<i, sim_failures, exitStatus, exitCause>>
                ELSE IF ~ r.ret /\ hist[i][Len(hist[i])].stage # "simulate"
                THEN /\ pc' = "b_simulate"
                     /\ hist' = Log(i, "simulate", "fail", {})
                     /\ UNCHANGED <<i, sim_failures, exitStatus, exitCause>>
                ELSE IF ~ r.ret
                THEN /\ sim_failures' = Append(sim_failures, i)
                     /\ hist' = Log(i, "simulate", "fail", {})
                     /\ NextCase
                     /\ UNCHANGED <<exitStatus, exitCause>>
                ELSE /\ pc' = "b_verify"
                     /\ hist' = Log(i, "simulate", "ok", {})
                     /\ UNCHANGED <<i, sim_failures, exitStatus, exitCause>>
    /\ UNCHANGED <<mode, testcase_num, results, skipped, summary, cwd,
                   reprompts, attempted, obs, result>>
    /\ UNCHANGED <<find_vivado_calls, fresh>>

\* the call of run_simulation for every behaviour of taskkill and vivado
BatchSimulate ==
    \E env \in SimEnvsRun : BatchSimulateWith(env) /\ UNCHANGED fresh

\* lines 429-430
BatchVerifyWith(env) ==
    /\ pc = "b_verify"
    /\ LET r == verify(env, fs, cwd)
       IN /\ fs' = r.files
          /\ cwd' = r.dir
          /\ IF r.kind = "raise"
             THEN /\ Exit(1, "exception")
                  /\ hist' = Log(i, "verify", "raise", {})
                  /\ UNCHANGED <<i, results>>
             ELSE /\ results' = DictSet(results, i, r.result)
                  /\ hist' = Log(i, "verify", "ok", r.called)
                  /\ NextCase
                  /\ UNCHANGED <<exitStatus, exitCause>>
    /\ UNCHANGED <<mode, testcase_num, sim_failures, skipped, summary,
                   reprompts, attempted, obs, result>>
    /\ UNCHANGED find_vivado_calls

\* the call of verify for every artifact that may vanish meanwhile
BatchVerify ==
    \E env \in VerifyEnvs : BatchVerifyWith(env) /\ UNCHANGED fresh

\* membership in a list
InList(x, list) == \E k \in 1..Len(list) : list[k] = x

\* passed_count of the summary loop (lines 439-459)
passed_count(res, sims, skips) ==
    Cardinality({id \in Ids : /\ ~ InList(id, skips)
                              /\ ~ InList(id, sims)
                              /\ id \in DOMAIN res
                              /\ res[id].success})

\* failed_cases listing every id of results
failed_cases_all(res) == sorted(DOMAIN res)

\* failed_cases (line 462)
failed_cases(res) ==
    SelectSeq(sorted(DOMAIN res), LAMBDA id : ~ res[id].success)

\* the value run_all_testcases returns (lines 476-492)
batch_success(res, sims, skips) ==
    LET total_run == Cardinality(DOMAIN res)
    IN IF total_run = 0 THEN FALSE
       ELSE passed_count(res, sims, skips) = total_run /\ sims = <<>>

\* the final summary, the return, and sys.exit(0 if success else 1)
BatchSummary ==
    /\ pc = "b_summary"
    /\ summary' = <<[passed_count |-> passed_count(results, sim_failures, skipped),
                     failed_cases |-> failed_cases(results),
                     total_run |-> Cardinality(DOMAIN results),
                     success |-> batch_success(results, sim_failures, skipped)]>>
    /\ Exit(IF batch_success(results, sim_failures, skipped) THEN 0 ELSE 1,
            "sys.exit")
    /\ UNCHANGED <<mode, i, testcase_num, results, sim_failures, skipped,
                   cwd, fs, reprompts, hist, attempted, obs, result>>
    /\ UNCHANGED <<find_vivado_calls, fresh>>

(***************************************************************************)
(* main: one test case (lines 537-580)                                     *)
(***************************************************************************)
\* lines 539-541
SingleConvert ==
    /\ pc = "s_convert"
    /\ \E env \in ConvertEnvs :
          LET r == convert_testcase(env, cwd)
          IN IF r = "hang"
             THEN /\ pc' = "blocked"
                  /\ hist' = Log(testcase_num, "convert", "hang", {})
                  /\ UNCHANGED <<exitStatus, exitCause>>
             ELSE IF r = "False"
             THEN /\ Exit(1, "sys.exit")
                  /\ hist' = Log(testcase_num, "convert", "fail", {})
             ELSE /\ pc' = "s_golden"
                  /\ hist' = Log(testcase_num, "convert", "ok", {})
                  /\ UNCHANGED <<exitStatus, exitCause>>
    /\ UNCHANGED <<mode, i, testcase_num, results, sim_failures, skipped,
                   summary, result, cwd, fs, reprompts, attempted, obs>>
    /\ UNCHANGED <<find_vivado_calls, fresh>>

\* lines 544-546
SingleGolden ==
    /\ pc = "s_golden"
    /\ \E env \in GoldenEnvs :
          LET r == generate_golden(env, fs, cwd)
          IN /\ fs' = r.files
             /\ IF r.ret = "hang"
                THEN /\ pc' = "blocked"
                     /\ hist' = Log(testcase_num, "golden", "hang", {})
                     /\ UNCHANGED <<exitStatus, exitCause>>
                ELSE IF r.ret = "False"
                THEN /\ Exit(1, "sys.exit")
                     /\ hist' = Log(testcase_num, "golden", "fail", {})
                ELSE /\ pc' = "s_simulate"
                     /\ hist' = Log(testcase_num, "golden", "ok", {})
                     /\ UNCHANGED <<exitStatus, exitCause>>
    /\ UNCHANGED <<mode, i, testcase_num, results, sim_failures, skipped,
                   summary, result, cwd, reprompts, attempted, obs>>
    /\ UNCHANGED <<find_vivado_calls, fresh>>

\* lines 556-574: without vivado, and after a failed run_simulation, main
\* prints a message and goes on to Stage 3
SingleSimulate ==
    /\ pc = "s_simulate"
    /\ \E found \in BOOLEAN, script \in BOOLEAN, env \in SimEnvsRun :
       /\ find_vivado_calls' =
              Append(find_vivado_calls, IF found THEN "path" ELSE "None")
       /\ IF ~ found
          THEN /\ pc' = "s_verify"
               /\ hist' = Log(testcase_num, "simulate", "notfound", {})
               /\ UNCHANGED <<exitStatus, exitCause, fs>>
          ELSE IF ~ script
          THEN /\ Exit(1, "sys.exit")
               /\ hist' = Log(testcase_num, "simulate", "fail", {})
               /\ UNCHANGED fs
          ELSE LET r == run_simulation(env, fs, cwd)
               IN /\ fs' = r.files
                  /\ IF r.kind = "raise"
                     THEN /\ Exit(1, "exception")
                          /\ hist' = Log(testcase_num, "simulate", "raise", {})
                     ELSE IF r.kind = "hang"
                     THEN /\ pc' = "blocked"
                          /\ hist' = Log(testcase_num, "simulate", "hang", {})
                          /\ UNCHANGED <<exitStatus, exitCause>>
                     ELSE /\ pc' = "s_verify"
                          /\ hist' = Log(testcase_num, "simulate",
                                         IF r.ret THEN "ok" ELSE "fail", {})
                          /\ UNCHANGED <<exitStatus, exitCause>>
    /\ UNCHANGED <<mode, i, testcase_num, results, sim_failures, skipped,
                   summary, result, cwd, reprompts, attempted, obs>>
    /\ UNCHANGED fresh

\* lines 579-580
SingleVerify ==
    /\ pc = "s_verify"
    /\ \E env \in VerifyEnvs :
          LET r == verify(env, fs, cwd)
          IN /\ fs' = r.files
             /\ cwd' = r.dir
             /\ IF r.kind = "raise"
                THEN /\ Exit(1, "exception")
                     /\ hist' = Log(testcase_num, "verify", "raise", {})
                     /\ UNCHANGED result
                ELSE /\ result' = <<r.result>>
                     /\ hist' = Log(testcase_num, "verify", "ok", r.called)
                     /\ Exit(IF r.result.success THEN 0 ELSE 1, "sys.exit")
    /\ UNCHANGED <<mode, i, testcase_num, results, sim_failures, skipped,
                   summary, reprompts, attempted, obs>>
    /\ UNCHANGED <<find_vivado_calls, fresh>>

(***************************************************************************)
(* The environment                                                         *)
(***************************************************************************)
\* KeyboardInterrupt after the prompt loop was left or while
\* run_all_testcases runs.  run_all_testcases is called inside the try of
\* the prompt loop, whose handler (lines 533-535) returns from main; the
\* single-case stages are covered by the outer handler (lines 582-584)
Interrupt ==
    /\ pc \notin {"prompt", "exited"}
    /\ Exit(IF mode = "batch" THEN 0 ELSE 1, "interrupt")
    /\ UNCHANGED <<mode, i, testcase_num, results, sim_failures, skipped,
                   summary, result, cwd, fs, reprompts, hist, attempted, obs>>
    /\ UNCHANGED <<find_vivado_calls, fresh>>

\* somebody removes an artifact while the program runs
EnvDelete ==
    /\ pc \notin {"prompt", "exited", "blocked"}
    /\ \E a \in Artifacts :
          /\ fs[a].exists
          /\ fs' = [fs EXCEPT ![a] = NoFile]
    /\ UNCHANGED <<pc, mode, i, testcase_num, results, sim_failures, skipped,
                   summary, result, exitStatus, exitCause, cwd, reprompts, hist,
                   attempted, obs>>
    /\ UNCHANGED <<find_vivado_calls, fresh>>

(***************************************************************************)
(* Specifications                                                          *)
(***************************************************************************)
Next ==
    \/ PromptAll \/ PromptChoose \/ PromptReject \/ PromptInterrupt
    \/ PromptEOF
    \/ BatchFind \/ BatchLocate \/ BatchConvert \/ BatchGolden
    \/ BatchSimulate \/ BatchVerify \/ BatchSummary
    \/ SingleConvert \/ SingleGolden \/ SingleSimulate \/ SingleVerify
    \/ Interrupt \/ EnvDelete

Spec == Init /\ [][Next]_vars


(***************************************************************************)
(* The loop of run_all_testcases on its own, from its first iteration, with *)
(* nobody interrupting or deleting files: which artifacts the stages of    *)
(* the iteration in progress wrote is followed in fresh                    *)
(***************************************************************************)
LoopInit ==
    /\ pc = "b_locate"
    /\ mode = "batch"
    /\ i = 1
    /\ testcase_num = 0
    /\ results = EmptyDict
    /\ sim_failures = <<>>
    /\ skipped = <<>>
    /\ summary = <<>>
    /\ result = <<>>
    /\ exitStatus = -1
    /\ exitCause = ""
    /\ cwd = "root"
    /\ fs \in FileSystems
    /\ reprompts = 0
    /\ hist = [id \in Ids |-> <<>>]
    /\ attempted = <<>>
    /\ obs = <<>>
    /\ find_vivado_calls = <<"path">>
    /\ fresh = {}

\* what the stage wrote joins fresh; the end of the iteration empties it
Freshen(wrote) ==
    fresh' = IF pc' \in {"b_locate", "b_summary"} THEN {}
             ELSE fresh \cup wrote

LoopGolden ==
    \E env \in GoldenEnvs :
        BatchGoldenWith(env) /\ Freshen(golden_written(env, cwd))

LoopSimulate ==
    \E env \in SimEnvsRun :
        BatchSimulateWith(env) /\ Freshen(sim_written(env))

LoopVerify ==
    \E env \in VerifyEnvs : BatchVerifyWith(env) /\ Freshen({})

LoopNext ==
    \/ BatchLocate
    \/ BatchConvert
    \/ LoopGolden
    \/ LoopSimulate
    \/ LoopVerify
    \/ BatchSummary

LoopSpec == LoopInit /\ [][LoopNext]_vars

(***************************************************************************)
(* parse_file and compare_data on their own                                *)
(***************************************************************************)
\* the program's own variables while a function is studied on its own
Idle ==
    /\ mode = "single"
    /\ i = 0
    /\ testcase_num = 1
    /\ results = EmptyDict
    /\ sim_failures = <<>>
    /\ skipped = <<>>
    /\ summary = <<>>
    /\ result = <<>>
    /\ exitStatus = -1
    /\ exitCause = ""
    /\ cwd = "root"
    /\ reprompts = 0
    /\ hist = [id \in Ids |-> <<>>]
    /\ attempted = <<>>
    /\ find_vivado_calls = <<>>
    /\ fresh = {}

IdleVars == <<mode, i, testcase_num, results, sim_failures, skipped, summary,
              result, exitStatus, exitCause, cwd, reprompts, hist, attempted,
              find_vivado_calls, fresh>>

\* lines an artifact may hold: data lines for the indices 1 and 2 in both
\* letter cases and with extra blanks, an index without a value, the word
\* MISSING as a value, a non-integer index, lines without the closing
\* bracket, a comment and a blank line
SampleLines ==
    { <<"[", "1", "]", " ", "a">>,
      <<"[", "1", "]", " ", "B">>,
      <<" ", "[", "2", "]", " ", " ", "a", " ">>,
      <<"[", "1", "]">>,
      <<"[", "2", "]", " ", "M", "I", "S", "S", "I", "N", "G">>,
      <<"[", "x", "]", " ", "a">>,
      <<"[", "2", " ", "a">>,
      <<"[", "2">>,
      <<"/", "/", " ", "[", "1", "]", " ", "c">>,
      <<" ">> }

RECURSIVE TextsOfLen(_)
TextsOfLen(n) ==
    IF n = 0 THEN {<<>>}
    ELSE {<<l>> \o t : l \in SampleLines, t \in TextsOfLen(n - 1)}

SampleFiles ==
    {NoFile} \cup {FileOf(t) : t \in UNION {TextsOfLen(n) : n \in 0..MaxLines}}

\* the images parse_file returns for them
ParsedImages == {parse_file(f) : f \in SampleFiles}

ParseInit ==
    /\ pc = "parse_call"
    /\ Idle
    /\ \E f \in SampleFiles :
          fs = [a \in Artifacts |-> IF a = "RF.out" THEN f ELSE NoFile]
    /\ obs = <<>>

\* rf_sim = parse_file('RF.out')
ParseCall ==
    /\ pc = "parse_call"
    /\ obs' = <<parse_file(fs["RF.out"])>>
    /\ pc' = "parse_return"
    /\ UNCHANGED fs
    /\ UNCHANGED IdleVars

ParseNext == ParseCall

ParseSpec == ParseInit /\ [][ParseNext]_vars

CmpInit ==
    /\ pc = "cmp_call"
    /\ Idle
    /\ fs = [a \in Artifacts |-> NoFile]
    /\ \E a \in ParsedImages, b \in ParsedImages :
          obs = <<[sim |-> a, golden |-> b]>>

\* compare_data(rf_sim, rf_golden, "RF"), and the call with the two images
\* exchanged
CmpCall ==
    /\ pc = "cmp_call"
    /\ LET a == obs[1].sim
           b == obs[1].golden
       IN obs' = <<[sim |-> a, golden |-> b,
                    res |-> compare_data(a, b, "RF"),
                    swapped |-> compare_data(b, a, "RF")]>>
    /\ pc' = "cmp_return"
    /\ UNCHANGED fs
    /\ UNCHANGED IdleVars

CmpNext == CmpCall

CmpSpec == CmpInit /\ [][CmpNext]_vars

(***************************************************************************)
(* verify on its own: every start state of the artifacts, and an artifact  *)
(* that vanishes while verify runs                                         *)
(***************************************************************************)
VerifyInit ==
    /\ pc = "verify_call"
    /\ Idle
    /\ fs \in FileSystems
    /\ obs = <<>>

\* result = verify()
VerifyCall ==
    /\ pc = "verify_call"
    /\ \E env \in VerifyEnvs :
          LET r == verify(env, fs, cwd)
          IN /\ obs' = <<[env |-> env, before |-> fs, res |-> r]>>
             /\ fs' = r.files
    /\ pc' = "verify_return"
    /\ UNCHANGED IdleVars

VerifyNext == VerifyCall

VerifySpec == VerifyInit /\ [][VerifyNext]_vars

(***************************************************************************)
(* run_simulation on its own: every start state of the artifacts, every    *)
(* behaviour of taskkill and vivado                                        *)
(***************************************************************************)
SimInit ==
    /\ pc = "sim_call"
    /\ mode = "single"
    /\ i = 0
    /\ testcase_num = 1
    /\ results = EmptyDict
    /\ sim_failures = <<>>
    /\ skipped = <<>>
    /\ summary = <<>>
    /\ result = <<>>
    /\ exitStatus = -1
    /\ exitCause = ""
    /\ cwd = "root"
    /\ fs \in FileSystems
    /\ reprompts = 0
    /\ hist = [id \in Ids |-> <<>>]
    /\ attempted = <<>>
    /\ obs = <<>>
    /\ find_vivado_calls = <<>>
    /\ fresh = {}

SimCall ==
    /\ pc = "sim_call"
    /\ \E env \in SimEnvs :
          LET r == run_simulation(env, fs, cwd)
          IN /\ obs' = <<[env |-> env, res |-> r]>>
             /\ fs' = r.files
    /\ pc' = "sim_return"
    /\ UNCHANGED <<mode, i, testcase_num, results, sim_failures, skipped,
                   summary, result, exitStatus, exitCause, cwd, reprompts,
                   hist, attempted>>
    /\ UNCHANGED <<find_vivado_calls, fresh>>

SimNext == SimCall

SimSpec == SimInit /\ [][SimNext]_vars

(***************************************************************************)
(* Properties                                                              *)
(***************************************************************************)
ListSet(list) == {list[k] : k \in 1..Len(list)}
NoDup(list) == \A j, k \in 1..Len(list) : j # k => list[j] # list[k]

\* stage was invoked for id and ended as ok says
HasEvent(id, stage, ok) ==
    \E k \in 1..Len(hist[id]) :
        hist[id][k].stage = stage /\ hist[id][k].ok = ok

\* stage was invoked for id
Invoked(id, stage) ==
    \E k \in 1..Len(hist[id]) : hist[id][k].stage = stage

\* no conversion, golden generation, simulation or verification so far
NoStageInvoked ==
    \A id \in Ids :
        \A k \in 1..Len(hist[id]) : hist[id][k].stage = "locate"

PipelineOrder == <<"locate", "convert", "golden", "simulate", "verify">>
UpTo(n) == [k \in 1..n |-> k]

\* C1: when the batch ends with its summary, the value run_all_testcases
\* returns is true exactly when every id has a Verified outcome with
\* overall = true; a Skipped or SimulationFailed id makes it false
C1_BatchSuccessIffAllPass ==
    summary # <<>> =>
        (summary[1].success <=>
            \A id \in Ids : id \in DOMAIN results /\ results[id].success)

\* C2: a single-case run exits with status 0 only if conversion, golden
\* generation and simulation all succeeded in this run and both channels
\* passed
C2_SingleExitZeroOnlyAfterSimulation ==
    (mode = "single" /\ pc = "exited" /\ exitStatus = 0) =>
        /\ HasEvent(testcase_num, "convert", "ok")
        /\ HasEvent(testcase_num, "golden", "ok")
        /\ HasEvent(testcase_num, "simulate", "ok")
        /\ result # <<>>
        /\ result[1].rf_pass /\ result[1].dm_pass

\* C3: in both modes the stages of a test case run in the order Locate,
\* Convert, GenerateGolden, Simulate, Verify, and a stage runs only after
\* all the stages before it succeeded
C3_StagesInOrderShortCircuit ==
    \A id \in Ids :
        /\ Len(hist[id]) <= Len(PipelineOrder)
        /\ \A k \in 1..Len(hist[id]) :
              /\ hist[id][k].stage = PipelineOrder[k]
              /\ k < Len(hist[id]) => hist[id][k].ok = "ok"

\* C4: a batch run attempts the ids in ascending order, each once, and
\* unless the user interrupts it, it ends only after every id was
\* attempted and the summary was made, however a pipeline fails
C4_BatchAttemptsEveryId ==
    /\ attempted = UpTo(Len(attempted))
    /\ (mode = "batch" /\ pc = "exited" /\ i >= 1
            /\ exitCause # "interrupt") =>
          (attempted = UpTo(NumCases) /\ summary # <<>>)

\* C5: skipped, sim_failures and the keys of results are pairwise
\* disjoint, hold no id twice and only ids the loop has reached; after the
\* loop their union is the whole id range
C5_OutcomesPartitionIds ==
    /\ ListSet(skipped) \cap ListSet(sim_failures) = {}
    /\ ListSet(skipped) \cap DOMAIN results = {}
    /\ ListSet(sim_failures) \cap DOMAIN results = {}
    /\ NoDup(skipped) /\ NoDup(sim_failures)
    /\ (ListSet(skipped) \cup ListSet(sim_failures) \cup DOMAIN results)
          \subseteq (ListSet(attempted) \cap 1..i)
    /\ (pc = "b_summary" \/ summary # <<>>) =>
          (ListSet(skipped) \cup ListSet(sim_failures) \cup DOMAIN results)
              = Ids

\* a batch reached the summary with a skipped and a verified id
C5_Witness ==
    /\ pc = "b_summary"
    /\ skipped # <<>>
    /\ DOMAIN results # {}

\* C6: in a batch run a Skipped id never had Simulate or Verify invoked, a
\* SimulationFailed id had Convert and GenerateGolden succeed and Simulate
\* fail, and a Verified id had Simulate succeed and compare_data run for
\* both channels
C6_OutcomeImpliesStages ==
    mode = "batch" =>
        \A id \in Ids :
            /\ id \in ListSet(skipped) =>
                  ~ Invoked(id, "simulate") /\ ~ Invoked(id, "verify")
            /\ id \in ListSet(sim_failures) =>
                  /\ HasEvent(id, "convert", "ok")
                  /\ HasEvent(id, "golden", "ok")
                  /\ HasEvent(id, "simulate", "fail")
            /\ id \in DOMAIN results =>
                  /\ HasEvent(id, "simulate", "ok")
                  /\ \E k \in 1..Len(hist[id]) :
                        /\ hist[id][k].stage = "verify"
                        /\ hist[id][k].channels = {"RF", "DM"}

\* C7: a KeyboardInterrupt during a batch run ends the process with a
\* non-zero status
C7_BatchInterruptFails ==
    (mode = "batch" /\ exitCause = "interrupt") => exitStatus # 0

\* C8: a KeyboardInterrupt at the prompt ends the process with status 0 and
\* no stage invoked, and a rejected input leaves main at the prompt with no
\* stage invoked
C8_PromptInterruptAndReject ==
    /\ [](exitCause = "prompt_interrupt" =>
            exitStatus = 0 /\ NoStageInvoked)
    /\ [][reprompts' # reprompts =>
            /\ pc = "prompt" /\ pc' = "prompt"
            /\ hist' = hist /\ NoStageInvoked
            /\ exitStatus' = -1]_vars

\* the prompt was interrupted after it had rejected an input
C8_Witness ==
    exitCause = "prompt_interrupt" /\ reprompts > 0

\* C9: every external invocation is bounded by a timeout: the program is
\* never left waiting without end for a tool that does not return
C9_NoUnboundedWait ==
    pc # "blocked"

\* a stripped line of the output starts with the marker: the marker is
\* preceded, back to the previous line break, by blanks only
HasErrorLine(tokens) ==
    \E k \in 1..Len(tokens) :
        /\ tokens[k] = "ERROR:"
        /\ \A j \in 1..(k - 1) :
              (\A m \in j..(k - 1) : tokens[m] # "\n")
                  => tokens[j] \in Whitespace

\* C10: run_simulation returns True exactly when vivado was launched,
\* ended before the timeout, printed no ERROR: line on stdout+stderr,
\* exited with 0 and left RF.out and DM.out non-empty; it launches vivado
\* at most once
C10_SimulationSuccessIff ==
    obs # <<>> =>
        LET env == obs[1].env
            res == obs[1].res
            success == res.kind = "return" /\ res.ret
        IN /\ success <=>
                /\ env.cleanup = "ok"
                /\ env.launch = "done"
                /\ ~ HasErrorLine(env.out \o env.err)
                /\ env.rc = 0
                /\ \A a \in {"RF.out", "DM.out"} :
                      fs[a].exists /\ fs[a].lines # <<>>
           /\ Cardinality({k \in 1..Len(res.steps) :
                              res.steps[k].cmd = "vivado"}) <= 1

\* run_simulation succeeded on dumps that were already there
C10_Witness ==
    /\ obs # <<>>
    /\ obs[1].res.ret
    /\ ~ obs[1].env.rf.write

\* C11: within a call of run_simulation, vivado is launched only after
\* taskkill was issued for xsim.exe and for xsimk.exe
C11_CleanupBeforeLaunch ==
    obs # <<>> =>
        LET steps == obs[1].res.steps
        IN \A k \in 1..Len(steps) :
              steps[k].cmd = "vivado" =>
                  \A proc \in {"xsim.exe", "xsimk.exe"} :
                      \E j \in 1..(k - 1) : steps[j] = Taskkill(proc)

\* vivado was launched and ran into the timeout
C11_Witness ==
    /\ obs # <<>>
    /\ obs[1].env.launch = "timeout"
    /\ obs[1].res.kind = "return"
    /\ \E k \in 1..Len(obs[1].res.steps) : obs[1].res.steps[k].cmd = "vivado"

\* C12: in batch mode find_vivado() is called at most once, every test case
\* is attempted after exactly one call that found a path, and when the call
\* finds none the process has exited with status 1 with no test case
\* attempted and no stage invoked
C12_BatchAbortsWithoutVivado ==
    mode = "batch" =>
        /\ Len(find_vivado_calls) <= 1
        /\ attempted # <<>> => find_vivado_calls = <<"path">>
        /\ find_vivado_calls = <<"None">> =>
               /\ pc = "exited"
               /\ exitStatus = 1
               /\ attempted = <<>>
               /\ \A id \in Ids : hist[id] = <<>>

\* the batch run ended because find_vivado() returned None
C12_Witness ==
    /\ mode = "batch"
    /\ find_vivado_calls = <<"None">>
    /\ pc = "exited"
    /\ exitStatus = 1

\* the value a side shows for an index: its entry, or the word MISSING
Side(d, x) ==
    IF x \in DOMAIN d THEN d[x] ELSE <<"M", "I", "S", "S", "I", "N", "G">>

\* the indices of a mismatch list, in order
IndexList(mismatches) == [k \in 1..Len(mismatches) |-> mismatches[k].index]

\* C13: for two parsed images the mismatch list holds exactly the indices of
\* the union of the key sets where the two sides differ (MISSING standing
\* for an absent key), once each in strictly ascending order, with both
\* values recorded; the count is the length of the list and the pass flag
\* is true exactly when the list is empty
C13_MismatchListExact ==
    (pc = "cmp_return" /\ obs[1].sim.found /\ obs[1].golden.found) =>
        LET sim    == obs[1].sim.data
            golden == obs[1].golden.data
            r      == obs[1].res
            list   == r.details.mismatches
            differ == {x \in DOMAIN sim \cup DOMAIN golden :
                          Side(sim, x) # Side(golden, x)}
        IN /\ ListSet(IndexList(list)) = differ
           /\ \A j, k \in 1..Len(list) : j < k => list[j].index < list[k].index
           /\ \A k \in 1..Len(list) :
                 /\ list[k].simulation = Side(sim, list[k].index)
                 /\ list[k].golden = Side(golden, list[k].index)
           /\ r.count = Len(list)
           /\ r.pass <=> list = <<>>

\* two indices mismatch, one of them present on one side only, while another
\* comparison of the same kind passes
C13_Witness ==
    /\ pc = "cmp_return"
    /\ obs[1].sim.found /\ obs[1].golden.found
    /\ DOMAIN obs[1].sim.data = {1, 2}
    /\ DOMAIN obs[1].golden.data = {1}
    /\ obs[1].res.count = 2
    /\ ~ obs[1].res.pass

\* C14: for images parse_file produced, an index present in only one of the
\* two images has a mismatch record and the comparison fails, whatever the
\* value on the present side
C14_OneSidedIndexMismatches ==
    (pc = "cmp_return" /\ obs[1].sim.found /\ obs[1].golden.found) =>
        \A x \in (DOMAIN obs[1].sim.data \cup DOMAIN obs[1].golden.data)
                  \ (DOMAIN obs[1].sim.data \cap DOMAIN obs[1].golden.data) :
            /\ \E k \in 1..Len(obs[1].res.details.mismatches) :
                  obs[1].res.details.mismatches[k].index = x
            /\ ~ obs[1].res.pass
            /\ obs[1].res.count > 0

\* the golden image holds the word MISSING (lower-cased) for index 2, the
\* simulation image has no index 2, and the comparison reports it
C14_Witness ==
    /\ pc = "cmp_return"
    /\ obs[1].sim.found /\ obs[1].golden.found
    /\ 2 \in DOMAIN obs[1].golden.data
    /\ 2 \notin DOMAIN obs[1].sim.data
    /\ lower(obs[1].golden.data[2]) = <<"m", "i", "s", "s", "i", "n", "g">>
    /\ \E k \in 1..Len(obs[1].res.details.mismatches) :
          obs[1].res.details.mismatches[k].index = 2

\* C18: comparing with the two images exchanged gives the same mismatch
\* indices in the same order, the same count and the same pass flag, and
\* each record has its two values exchanged
C18_SwapSymmetry ==
    pc = "cmp_return" =>
        LET r == obs[1].res
            q == obs[1].swapped
        IN /\ IndexList(q.details.mismatches) = IndexList(r.details.mismatches)
           /\ q.count = r.count
           /\ q.pass = r.pass
           /\ \A k \in 1..Len(r.details.mismatches) :
                 /\ k <= Len(q.details.mismatches)
                 /\ q.details.mismatches[k].simulation =
                       r.details.mismatches[k].golden
                 /\ q.details.mismatches[k].golden =
                       r.details.mismatches[k].simulation

\* images with different key sets and a differing common index were compared
\* both ways
C18_Witness ==
    /\ pc = "cmp_return"
    /\ obs[1].sim.found /\ obs[1].golden.found
    /\ DOMAIN obs[1].sim.data = {1}
    /\ DOMAIN obs[1].golden.data = {1, 2}
    /\ obs[1].res.count = 2
    /\ obs[1].swapped.count = 2

\* the sample lines that are well-formed data lines (an integer index in
\* brackets followed by a value), with the index and the value they carry
WellFormedLines ==
    { [line |-> <<"[", "1", "]", " ", "a">>, index |-> 1, value |-> <<"a">>],
      [line |-> <<"[", "1", "]", " ", "B">>, index |-> 1, value |-> <<"b">>],
      [line |-> <<" ", "[", "2", "]", " ", " ", "a", " ">>,
       index |-> 2, value |-> <<"a">>],
      [line |-> <<"[", "2", "]", " ", "M", "I", "S", "S", "I", "N", "G">>,
       index |-> 2, value |-> <<"m", "i", "s", "s", "i", "n", "g">>] }

IsWellFormed(l) == \E w \in WellFormedLines : w.line = l
EntryOf(l) == CHOOSE w \in WellFormedLines : w.line = l

\* C15: parsing an artifact that exists returns an image in which every
\* well-formed line's index has an entry, whatever malformed lines stand
\* before or after it, and every entry comes from a well-formed line: a line
\* with a non-integer index, without the closing bracket or without a value
\* (such as '[1]') adds none
C15_MalformedLinesSkipped ==
    (pc = "parse_return" /\ fs["RF.out"].exists) =>
        LET lines == fs["RF.out"].lines
            image == obs[1].data
        IN /\ obs[1].found
           /\ \A k \in 1..Len(lines) :
                 IsWellFormed(lines[k]) =>
                     EntryOf(lines[k]).index \in DOMAIN image
           /\ \A x \in DOMAIN image :
                 \E k \in 1..Len(lines) :
                     IsWellFormed(lines[k]) /\ EntryOf(lines[k]).index = x

\* C19: when an artifact has several well-formed lines for an index, the
\* image holds for that index the value of the last of them
C19_LastDuplicateWins ==
    (pc = "parse_return" /\ fs["RF.out"].exists) =>
        LET lines == fs["RF.out"].lines
            image == obs[1].data
        IN \A x \in {w.index : w \in WellFormedLines} :
              LET ks == {k \in 1..Len(lines) :
                            IsWellFormed(lines[k])
                            /\ EntryOf(lines[k]).index = x}
                  last == CHOOSE k \in ks : \A j \in ks : j <= k
              IN Cardinality(ks) >= 2 =>
                    /\ x \in DOMAIN image
                    /\ image[x] = EntryOf(lines[last]).value

\* the artifacts of a channel
OutOf(c) == IF c = "RF" THEN "RF.out" ELSE "DM.out"
GoldenOf(c) == IF c = "RF" THEN "RF.golden" ELSE "DM.golden"

\* what a returned result says about a channel
PassOf(res, c) == IF c = "RF" THEN res.rf_pass ELSE res.dm_pass
CountOf(res, c) == IF c = "RF" THEN res.rf_mismatches ELSE res.dm_mismatches
DetailsOf(res, c) == IF c = "RF" THEN res.rf_details ELSE res.dm_details

\* C16: when an artifact is absent at the start of verify or disappears
\* while it runs, verify returns, with success false, and every channel
\* with an absent artifact has failed without an index comparison; where
\* compare_data was handed the absent image the reason names its side
C16_MissingArtifactNoRaise ==
    (/\ pc = "verify_return"
     /\ \E a \in Artifacts : ~ obs[1].before[a].exists \/ a \in obs[1].env.gone) =>
        LET r == obs[1].res
        IN /\ r.kind = "return"
           /\ ~ r.result.success
           /\ \A c \in {"RF", "DM"} :
                 (~ fs[OutOf(c)].exists \/ ~ fs[GoldenOf(c)].exists) =>
                     /\ ~ PassOf(r.result, c)
                     /\ CountOf(r.result, c) = 0
                     /\ c \notin r.compared
                     /\ c \in r.called =>
                           DetailsOf(r.result, c).reason =
                               IF ~ fs[OutOf(c)].exists
                               THEN <<c, "simulation output not found">>
                               ELSE <<c, "golden reference not found">>

\* the channel's outcome from its own two artifacts alone: the golden file
\* holds the value A for index 1, and only the dump with the value a for
\* index 1 agrees with it
ChannelAgrees(files, c) ==
    /\ files[GoldenOf(c)] = FileOf(<< <<"[", "1", "]", " ", "A">> >>)
    /\ files[OutOf(c)] = FileOf(<< <<"[", "1", "]", " ", "a">> >>)

\* C17: in a result verify returns, success equals rf_pass and dm_pass, each
\* channel flag is the outcome of comparing that channel's own two
\* artifacts, and compare_data was called for both channels
C17_ChannelsIndependent ==
    (pc = "verify_return" /\ obs[1].res.kind = "return") =>
        LET r == obs[1].res
        IN /\ r.result.success <=> (r.result.rf_pass /\ r.result.dm_pass)
           /\ \A c \in {"RF", "DM"} :
                 PassOf(r.result, c) <=> ChannelAgrees(fs, c)
           /\ r.called = {"RF", "DM"}

\* C20: within one run, conversion, golden generation and simulation are
\* each invoked at most once for a test case id, however they ended
C20_NoStageRetry ==
    \A id \in Ids :
        \A stage \in {"convert", "golden", "simulate"} :
            Cardinality({k \in 1..Len(hist[id]) :
                            hist[id][k].stage = stage}) <= 1

\* a batch run went on to the summary after the simulation of id 1 failed
C20_Witness ==
    /\ mode = "batch"
    /\ pc = "b_summary"
    /\ HasEvent(1, "simulate", "fail")
    /\ 1 \in ListSet(sim_failures)
    /\ Len(attempted) = NumCases

\* C21: in a batch run, when an id is recorded as Verified with both
\* channels compared, the four artifacts compared were written by the
\* golden generation and the simulation of that same iteration
C21_VerifiedArtifactsFresh ==
    [][(/\ pc = "b_verify"
        /\ i \notin DOMAIN results
        /\ i \in DOMAIN results'
        /\ hist'[i][Len(hist'[i])].channels = {"RF", "DM"}
        /\ results'[i].rf_details.reason = <<>>
        /\ results'[i].dm_details.reason = <<>>)
       => fresh = Artifacts]_vars

\* C22: the working directory is the project root wherever a stage of a test
\* case starts and after every return of verify; it is elsewhere only once
\* an exception has ended the process
C22_VerifyKeepsCwd ==
    cwd # "root" => (pc = "exited" /\ exitCause = "exception")

\* verify returned through its missing-files path for id 1 and the batch run
\* is about to start the stages of the next id in the project root
C22_Witness ==
    /\ mode = "batch"
    /\ pc = "b_locate"
    /\ i = 2
    /\ 1 \in DOMAIN results
    /\ hist[1][Len(hist[1])] = Event("verify", "ok", {})
    /\ cwd = "root"

\* C23: in the batch summary the verification-failed list holds exactly the
\* ids of results whose success flag is false, in strictly ascending order,
\* none of them skipped or simulation-failed, and the passed count plus the
\* length of the list is the number of ids in results
C23_FailedListExact ==
    (mode = "batch" /\ summary # <<>>) =>
        LET failed == summary[1].failed_cases
        IN /\ ListSet(failed) = {id \in DOMAIN results : ~ results[id].success}
           /\ \A j, k \in 1..Len(failed) : j < k => failed[j] < failed[k]
           /\ \A k \in 1..Len(failed) :
                 /\ failed[k] \notin ListSet(skipped)
                 /\ failed[k] \notin ListSet(sim_failures)
           /\ summary[1].passed_count + Len(failed)
                 = Cardinality(DOMAIN results)

\* a summary with one id passed, one failed verification and the rest of the
\* ids, if any, skipped or failed in simulation
C23_Witness ==
    /\ mode = "batch"
    /\ summary # <<>>
    /\ summary[1].failed_cases = <<2>>
    /\ summary[1].passed_count = 1
    /\ 1 \in DOMAIN results

====
